---- MODULE Spec2Model ----
(***************************************************************************)
(* A model of prefect/orion/utilities/schemas.py: the field-filtering      *)
(* subclass factory pydantic_subclass, PrefectBaseModel.dict and            *)
(* APIBaseModel.copy.  Python objects that the code aliases or copies       *)
(* (field descriptors, __fields__ dicts, update dicts, model instances)     *)
(* live on heaps indexed by reference, so that identity and sharing are     *)
(* visible.                                                                 *)
(***************************************************************************)
EXTENDS Integers, Sequences, FiniteSets, TLC

VARIABLES
    classes,    \* heap of model classes: [name, base, fields], fields a ref into dicts
    dicts,      \* heap of __fields__ dict objects: field name -> ref into fieldObjs
    fieldObjs,  \* heap of ModelField descriptors: [name, default]
    muts,       \* how many __fields__ entries callers have removed or replaced
    insts,      \* heap of model instances: [cls, vals], vals: field name -> value
    updates,    \* heap of the callers' update dicts: [map, given]
    last        \* the call that has just returned: its arguments and outcome

classVars == <<classes, dicts, fieldObjs, muts>>
instVars == <<insts, updates>>
vars == <<classes, dicts, fieldObjs, muts, insts, updates, last>>

-----------------------------------------------------------------------------
(* Bounds *)

MaxClasses == 3     \* classes on the heap, the two declared ones included
MaxMutations == 1   \* __fields__ entries callers remove or replace
MaxInsts == 3       \* model instances on the heap
MaxUpdates == 1     \* update dicts the callers build

-----------------------------------------------------------------------------
(* The declared classes: APIBaseModel, and an entity type deriving from it   *)
(* with one field of its own.                                                *)

APIFields == {"id", "created", "updated"}
EntityFields == APIFields \cup {"data"}
Names == EntityFields \cup {"zzz"}    \* "zzz" is a field of no class

\* declaration order of the fields, the iteration order of __fields__
FieldOrder == <<"id", "created", "updated", "data">>

Pos(f) == CHOOSE i \in 1..Len(FieldOrder) : FieldOrder[i] = f

\* APIBaseModel's field declarations: id has a default factory, the timestamps
\* default to None; the entity's own field is required
DeclaredDefault(f) ==
    CASE f = "id" -> "uuid4"
      [] f \in {"created", "updated"} -> "None"
      [] OTHER -> "required"

APIBaseModel == 1
Entity == 2
Declared == {APIBaseModel, Entity}

\* an optional list argument: given = FALSE is None
NoList == [given |-> FALSE, names |-> {}]
OptLists ==
    {NoList} \cup
    {[given |-> TRUE, names |-> s] : s \in SUBSET Names}

ClassNames == {""}      \* the name argument: "" is name=None, the callers' choice here

\* Python truthiness of an optional list: None and [] are both falsy
Truthy(l) == l.given /\ l.names # {}

-----------------------------------------------------------------------------
(* The caller is one sequential program: it makes a call, looks at what the  *)
(* call returned or raised, and goes on.                                     *)

NoCall == [op |-> "none"]
Idle == last.op = "none"

Return ==
    /\ ~Idle
    /\ last' = NoCall
    /\ UNCHANGED <<classVars, instVars>>

-----------------------------------------------------------------------------
(* pydantic_subclass *)

FieldMap(c) == dicts[classes[c].fields]
FieldNamesOf(c) == DOMAIN FieldMap(c)

\* field_names = set(include_fields or base.__fields__)
field_names(base, include_fields) ==
    IF Truthy(include_fields) THEN include_fields.names ELSE FieldNamesOf(base)

\* excluded_fields = set(exclude_fields or [])
excluded_fields(exclude_fields) ==
    IF Truthy(exclude_fields) THEN exclude_fields.names ELSE {}

NoError == [raised |-> FALSE, msg |-> "", missing |-> {}]

validate_elif(base, include_fields, exclude_fields) ==
    LET fn == field_names(base, include_fields)
        ex == excluded_fields(exclude_fields)
    IN  IF ex \ FieldNamesOf(base) # {}
        THEN [raised |-> TRUE, msg |-> "Excluded fields not found on base class",
              missing |-> ex \ FieldNamesOf(base)]
        ELSE IF fn \ FieldNamesOf(base) # {}
        THEN [raised |-> TRUE, msg |-> "Included fields not found on base class",
              missing |-> fn \ FieldNamesOf(base)]
        ELSE NoError

\* the if / elif that raises ValueError
validate(base, include_fields, exclude_fields) ==
    LET fn == field_names(base, include_fields)
        ex == excluded_fields(exclude_fields)
    IN  IF fn \ FieldNamesOf(base) # {}
        THEN [raised |-> TRUE, msg |-> "Included fields not found on base class",
              missing |-> fn \ FieldNamesOf(base)]
        ELSE IF ex \ FieldNamesOf(base) # {}
        THEN [raised |-> TRUE, msg |-> "Excluded fields not found on base class",
              missing |-> ex \ FieldNamesOf(base)]
        ELSE NoError

\* field_names.difference_update(excluded_fields)
final_fields(base, include_fields, exclude_fields) ==
    field_names(base, include_fields) \ excluded_fields(exclude_fields)

copy_alias(ref, fresh) == ref

\* copy.copy(v): the reference of the result, a new object
copy_copy(ref, fresh) == fresh

\* the k-th (1-based) of the fields S in declaration order
Rank(f, S) == Cardinality({g \in S : Pos(g) <= Pos(f)})

pydantic_subclass(base, name, include_fields, exclude_fields) ==
    LET err == validate(base, include_fields, exclude_fields)
        keep == final_fields(base, include_fields, exclude_fields)
        n == Len(fieldObjs)
        bmap == FieldMap(base)
        fresh(k) == n + Rank(k, keep)
        copies == [i \in 1..Cardinality(keep) |->
                     LET k == CHOOSE g \in keep : Rank(g, keep) = i
                     IN  fieldObjs[bmap[k]]]
        newDict == [k \in keep |-> copy_copy(bmap[k], fresh(k))]
        newCls == [name |-> IF name # "" THEN name ELSE classes[base].name,
                   base |-> base,
                   fields |-> Len(dicts) + 1]
    IN  IF err.raised
        THEN /\ last' = [op |-> "subclass", base |-> base, include |-> include_fields,
                         exclude |-> exclude_fields, err |-> err, cls |-> 0,
                         before |-> Len(classes)]
             /\ UNCHANGED <<classVars, instVars>>
        ELSE /\ fieldObjs' = fieldObjs \o copies
             /\ UNCHANGED <<muts, instVars>>
             /\ dicts' = Append(dicts, newDict)
             /\ classes' = Append(classes, newCls)
             /\ last' = [op |-> "subclass", base |-> base, include |-> include_fields,
                         exclude |-> exclude_fields, err |-> err,
                         cls |-> Len(classes) + 1, before |-> Len(classes)]

\* PrefectBaseModel.subclass: cls.subclass(name, include_fields, exclude_fields)
\* Classes are synthesized when the program starts, before it builds instances.
Subclass ==
    /\ Idle
    /\ Len(classes) < MaxClasses
    /\ insts = << >> /\ updates = << >>
    /\ \E base \in DOMAIN classes, name \in ClassNames,
          inc \in OptLists, exc \in OptLists :
            pydantic_subclass(base, name, inc, exc)

\* a caller removes an entry of a produced class's __fields__
PopField ==
    /\ Idle
    /\ muts < MaxMutations
    /\ muts' = muts + 1
    /\ \E c \in DOMAIN classes \ Declared : \E f \in FieldNamesOf(c) :
        /\ dicts' = [dicts EXCEPT ![classes[c].fields] =
                       [g \in DOMAIN @ \ {f} |-> @[g]]]
        /\ last' = [op |-> "pop", cls |-> c, field |-> f]
        /\ UNCHANGED <<classes, fieldObjs, instVars>>

\* a caller replaces an entry of a produced class's __fields__ by a new descriptor
ReplaceField ==
    /\ Idle
    /\ muts < MaxMutations
    /\ muts' = muts + 1
    /\ \E c \in DOMAIN classes \ Declared : \E f \in FieldNamesOf(c) :
        /\ fieldObjs' = Append(fieldObjs, [name |-> f, default |-> "None"])
        /\ dicts' = [dicts EXCEPT ![classes[c].fields][f] = Len(fieldObjs) + 1]
        /\ last' = [op |-> "replace", cls |-> c, field |-> f]
        /\ UNCHANGED <<classes, instVars>>

-----------------------------------------------------------------------------

Descriptor(f) == [name |-> f, default |-> DeclaredDefault(f)]

\* each declared class owns its descriptors: 1..3 APIBaseModel's, 4..7 Entity's
InitFieldObjs ==
    [i \in 1..7 |-> IF i <= 3 THEN Descriptor(FieldOrder[i])
                              ELSE Descriptor(FieldOrder[i - 3])]

InitClasses ==
    /\ fieldObjs = InitFieldObjs
    /\ dicts = << [f \in APIFields |-> Pos(f)], [f \in EntityFields |-> 3 + Pos(f)] >>
    /\ classes = << [name |-> "APIBaseModel", base |-> 0, fields |-> 1],
                    [name |-> "Entity", base |-> APIBaseModel, fields |-> 2] >>

Init ==
    /\ InitClasses
    /\ muts = 0
    /\ insts = << >>
    /\ updates = << >>
    /\ last = NoCall

-----------------------------------------------------------------------------
(* Values of fields *)

NoneV == [t |-> "none", v |-> 0]
Uuid(n) == [t |-> "uuid", v |-> n]
Time(n) == [t |-> "time", v |-> n]
Str(n) == [t |-> "str", v |-> n]

Model(r) == [t |-> "model", v |-> r]     \* the model instance at r
ListOf(r) == [t |-> "list", v |-> r]     \* a list holding the model instance at r
PlainDict == [t |-> "dict", v |-> 1]     \* the plain dict {"k": "a"}

SomeId == Uuid(0)       \* an id a caller chooses; uuid4 never returns it
Stamps == {NoneV, Time(1)}

EmptyMap == [k \in {} |-> NoneV]

UuidsIn(m) == {m[f].v : f \in {g \in DOMAIN m : m[g].t = "uuid"}}

\* the uuids some object holds
UsedUuids ==
    UNION {UuidsIn(insts[i].vals) : i \in DOMAIN insts}
    \cup UNION {UuidsIn(updates[u].map) : u \in DOMAIN updates}

\* uuid4(): a uuid no object holds
uuid4 == Uuid(CHOOSE n \in 1..(Cardinality(UsedUuids) + 1) :
                 n \notin UsedUuids /\ \A m \in 1..(n - 1) : m \in UsedUuids)

\* ModelField.get_default(): the default factory's result, or the static default
get_default(field) == IF field.default = "uuid4" THEN uuid4 ELSE NoneV

-----------------------------------------------------------------------------
(* Building instances and update dicts *)

\* cls(created=..., updated=..., data=...): id takes its default
NewInstance(c, created, updated, data) ==
    [cls |-> c,
     vals |-> [f \in FieldNamesOf(c) |->
                 CASE f = "id" -> get_default(fieldObjs[FieldMap(c)[f]])
                   [] f = "created" -> created
                   [] f = "updated" -> updated
                   [] OTHER -> data]]

Construct ==
    /\ Idle
    /\ Len(insts) < MaxInsts
    /\ \E c \in DOMAIN classes, stamp \in Stamps :
        /\ insts' = Append(insts, NewInstance(c, stamp, stamp, Str(1)))
        /\ last' = [op |-> "construct", res |-> Len(insts) + 1]
    /\ UNCHANGED <<classVars, updates>>

\* the update dicts a caller writes: any of the keys, with values of its choosing
UpdateLiterals ==
    {m \in UNION {[K -> {SomeId, Time(2), Str(2)}] : K \in SUBSET EntityFields} :
        \A k \in DOMAIN m :
            m[k] = CASE k = "id" -> SomeId
                     [] k \in {"created", "updated"} -> Time(2)
                     [] OTHER -> Str(2)}

MakeUpdate ==
    /\ Idle
    /\ Len(updates) < MaxUpdates
    /\ \E m \in UpdateLiterals :
        /\ updates' = Append(updates, [map |-> m, given |-> DOMAIN m])
        /\ last' = [op |-> "update", res |-> Len(updates) + 1]
    /\ UNCHANGED <<classVars, insts>>

-----------------------------------------------------------------------------
(* APIBaseModel.copy *)

setitem(m, k, val) == [j \in DOMAIN m \cup {k} |-> IF j = k THEN val ELSE m[j]]

\* dict.setdefault(k, val): val goes in only when k is not a key yet
setdefault(m, k, val) ==
    [j \in DOMAIN m \cup {k} |-> IF j \in DOMAIN m THEN m[j] ELSE val]

\* update.setdefault(k, self.__fields__[k].get_default()), for the keys ks in
\* turn; self.__fields__[k] raises KeyError when the class has no field k, and
\* what the earlier lines put into update stays there
RECURSIVE setdefaults(_, _, _)
setdefaults(m, fields, ks) ==
    IF ks = << >> THEN [map |-> m, raised |-> ""]
    ELSE IF Head(ks) \notin DOMAIN fields THEN [map |-> m, raised |-> "KeyError"]
    ELSE setdefaults(setdefault(m, Head(ks), get_default(fieldObjs[fields[Head(ks)]])),
                     fields, Tail(ks))

\* BaseModel.copy(update=update): the instance's values, then update's on top
copy_values(vals, update) ==
    [f \in DOMAIN vals \cup DOMAIN update |->
        IF f \in DOMAIN update THEN update[f] ELSE vals[f]]

\* update = update or dict(): None and an empty dict both give a new dict
UpdateIsCallers(u) == u # 0 /\ DOMAIN updates[u].map # {}

\* self.copy(update=u); u = 0 is update=None, otherwise u is a caller's dict
copy(self, u) ==
    LET start == IF UpdateIsCallers(u) THEN updates[u].map ELSE EmptyMap
        out == setdefaults(start, FieldMap(insts[self].cls),
                           <<"id", "created", "updated">>)
        new == [cls |-> insts[self].cls,
                vals |-> copy_values(insts[self].vals, out.map)]
    IN  /\ updates' = IF UpdateIsCallers(u) THEN [updates EXCEPT ![u].map = out.map]
                                            ELSE updates
        /\ insts' = IF out.raised = "" THEN Append(insts, new) ELSE insts
        /\ last' = [op |-> "copy", self |-> self, update |-> u,
                    given |-> IF u = 0 THEN EmptyMap ELSE updates[u].map,
                    raised |-> out.raised,
                    res |-> IF out.raised = "" THEN Len(insts) + 1 ELSE 0]
        /\ UNCHANGED classVars

Copy ==
    /\ Idle
    /\ Len(insts) < MaxInsts
    /\ \E self \in DOMAIN insts, u \in {0} \cup DOMAIN updates : copy(self, u)

-----------------------------------------------------------------------------
(* PrefectBaseModel.dict *)

\* an instance whose data field holds a model instance, a list of one, or a dict
ConstructNested ==
    /\ Idle
    /\ Len(insts) < MaxInsts
    /\ \E data \in {PlainDict} \cup {Model(r) : r \in DOMAIN insts}
                              \cup {ListOf(r) : r \in DOMAIN insts} :
        /\ insts' = Append(insts, NewInstance(Entity, NoneV, NoneV, data))
        /\ last' = [op |-> "construct", res |-> Len(insts) + 1]
    /\ UNCHANGED <<classVars, updates>>

\* exported values carry, for a mapping or a list, their items in m
NoItems == [k \in {} |-> NoneV]

\* a value exported as the object it is
Keep(val) == [t |-> val.t, v |-> val.v, m |-> NoItems]

\* BaseModel.dict's conversion of a value: model instances become mappings of
\* their converted fields, inside lists and dicts too
RECURSIVE Deep(_)
Deep(val) ==
    CASE val.t = "model" ->
            [t |-> "mapping", v |-> 0,
             m |-> [f \in DOMAIN insts[val.v].vals |-> Deep(insts[val.v].vals[f])]]
      [] val.t = "list" ->
            [t |-> "list", v |-> 0, m |-> [k \in {"0"} |-> Deep(Model(val.v))]]
      [] val.t = "dict" ->
            [t |-> "mapping", v |-> 0, m |-> [k \in {"k"} |-> Keep(Str(1))]]
      [] OTHER -> Keep(val)

\* json.loads(json.dumps(...)) of an exported value: None is null; uuids,
\* datetimes and strings are strings
RECURSIVE Json(_)
Json(e) ==
    CASE e.t = "none" -> [t |-> "null", v |-> 0, m |-> NoItems]
      [] e.t = "uuid" -> [t |-> "string", v |-> 100 + e.v, m |-> NoItems]
      [] e.t = "time" -> [t |-> "string", v |-> 200 + e.v, m |-> NoItems]
      [] e.t = "str" -> [t |-> "string", v |-> e.v, m |-> NoItems]
      [] OTHER -> [t |-> e.t, v |-> 0, m |-> [k \in DOMAIN e.m |-> Json(e.m[k])]]

\* an include= or exclude= keyword: not passed, passed as None, or a set of names
OptionNames == {"id", "data"}
Options ==
    {[passed |-> FALSE, none |-> TRUE, names |-> {}],
     [passed |-> TRUE, none |-> TRUE, names |-> {}]}
    \cup {[passed |-> TRUE, none |-> FALSE, names |-> s] : s \in SUBSET OptionNames}
Kwargs == [include : Options, exclude : Options]

\* not args and not kwargs
NoKwargs(kwargs) == ~kwargs.include.passed /\ ~kwargs.exclude.passed

\* the keys BaseModel.dict / BaseModel.json export under include and exclude
ExportKeys(self, kwargs) ==
    LET all == DOMAIN insts[self].vals
        inc == IF kwargs.include.none THEN all ELSE all \cap kwargs.include.names
    IN  IF kwargs.exclude.none THEN inc ELSE inc \ kwargs.exclude.names

\* super().dict(*args, **kwargs)
BaseModel_dict(self, kwargs) ==
    [k \in ExportKeys(self, kwargs) |-> Deep(insts[self].vals[k])]

\* json.loads(self.json(*args, **kwargs))
json_loads_json(self, kwargs) ==
    [k \in ExportKeys(self, kwargs) |-> Json(Deep(insts[self].vals[k]))]

shallow_dict_deep(self) == [k \in DOMAIN insts[self].vals |-> Deep(insts[self].vals[k])]

\* dict(self): the fields with the values they hold
shallow_dict(self) == [k \in DOMAIN insts[self].vals |-> Keep(insts[self].vals[k])]

overwrite_none(deep_dict, shallow) == deep_dict

\* the loop over deep_dict: a dict in deep_dict whose shallow value is a model
\* instance is replaced by that instance
overwrite(deep_dict, shallow) ==
    [k \in DOMAIN deep_dict |->
        IF deep_dict[k].t = "mapping" /\ shallow[k].t = "model"
        THEN shallow[k] ELSE deep_dict[k]]

branch_json_first(shallow, json_compatible, kwargs) ==
    IF json_compatible THEN "json"
    ELSE IF ~shallow THEN "deep"
    ELSE IF NoKwargs(kwargs) THEN "shallow"
    ELSE "overwrite"

\* the if / elif chain of dict()
branch(shallow, json_compatible, kwargs) ==
    IF json_compatible /\ shallow THEN "raise"
    ELSE IF json_compatible THEN "json"
    ELSE IF ~shallow THEN "deep"
    ELSE IF NoKwargs(kwargs) THEN "shallow"
    ELSE "overwrite"

\* self.dict(shallow=..., json_compatible=..., **kwargs): what it returns or
\* raises, and the exports it calls on the way
dict(self, shallow, json_compatible, kwargs) ==
    LET b == branch(shallow, json_compatible, kwargs)
        out == CASE b = "raise" ->
                      [raised |-> "ValueError", result |-> NoItems, calls |-> << >>]
                 [] b = "json" ->
                      [raised |-> "", result |-> json_loads_json(self, kwargs),
                       calls |-> <<"self.json", "json.loads">>]
                 [] b = "deep" ->
                      [raised |-> "", result |-> BaseModel_dict(self, kwargs),
                       calls |-> <<"super().dict">>]
                 [] b = "shallow" ->
                      [raised |-> "", result |-> shallow_dict(self),
                       calls |-> <<"dict(self)">>]
                 [] OTHER ->
                      [raised |-> "",
                       result |-> overwrite(BaseModel_dict(self, kwargs), shallow_dict(self)),
                       calls |-> <<"super().dict", "dict(self)">>]
    IN  /\ last' = [op |-> "dict", self |-> self, shallow |-> shallow,
                    json_compatible |-> json_compatible, kwargs |-> kwargs,
                    raised |-> out.raised, result |-> out.result, calls |-> out.calls]
        /\ UNCHANGED <<classVars, instVars>>

Dict ==
    /\ Idle
    /\ \E self \in DOMAIN insts, shallow \in BOOLEAN, json_compatible \in BOOLEAN,
          kwargs \in Kwargs :
            dict(self, shallow, json_compatible, kwargs)

NextFactory == Subclass \/ PopField \/ ReplaceField \/ Return

SpecFactory == Init /\ [][NextFactory]_vars

NextCopy == Construct \/ MakeUpdate \/ Copy \/ Return

SpecCopy == Init /\ [][NextCopy]_vars

NextDict == Construct \/ ConstructNested \/ Dict \/ Return

SpecDict == Init /\ [][NextDict]_vars

NextSubclassCopy == Subclass \/ Construct \/ Copy \/ Return

SpecSubclassCopy == Init /\ [][NextSubclassCopy]_vars

-----------------------------------------------------------------------------
(* Claims about the subclass factory *)

Range(f) == {f[x] : x \in DOMAIN f}

\* what a class's field map holds: per field, the descriptor's reference and content
ClassView(c) ==
    [f \in FieldNamesOf(c) |-> [ref |-> FieldMap(c)[f], obj |-> fieldObjs[FieldMap(c)[f]]]]

SubclassReturned == last.op = "subclass"
IncludeAbsent == last.include.names \ FieldNamesOf(last.base)
ExcludeAbsent == last.exclude.names \ FieldNamesOf(last.base)
ArgsValid == IncludeAbsent = {} /\ ExcludeAbsent = {}

\* C1: a call whose include_fields and exclude_fields name only fields of the
\* base produces a type whose field names are (include_fields if provided,
\* otherwise all the base's field names) minus exclude_fields.
C1_FieldsAreIncludeMinusExclude ==
    (SubclassReturned /\ ArgsValid) =>
        /\ last.cls # 0
        /\ FieldNamesOf(last.cls) =
             (IF last.include.given THEN last.include.names
                                    ELSE FieldNamesOf(last.base)) \ last.exclude.names

\* C2: with include_fields any subset of the base's field names, the empty one
\* included, and no exclude_fields, the produced type's field names are exactly
\* include_fields.
C2_FieldsAreExactlyInclude ==
    (SubclassReturned /\ last.include.given /\ IncludeAbsent = {}
        /\ ~last.exclude.given) =>
        /\ last.cls # 0
        /\ FieldNamesOf(last.cls) = last.include.names

\* C3 as stated: a call naming an absent field in include_fields or in
\* exclude_fields raises, produces no type, and the error lists exactly the
\* requested names that are absent, those of both lists together.
C3_ErrorListsAllAbsentNames ==
    (SubclassReturned /\ ~ArgsValid) =>
        /\ last.err.raised
        /\ last.cls = 0
        /\ Len(classes) = last.before
        /\ last.err.missing = IncludeAbsent \cup ExcludeAbsent

\* C3 amended: such a call raises and produces no type; the error lists all the
\* absent names of include_fields when there are any, and only otherwise all
\* the absent names of exclude_fields (exclude_fields is looked at only when
\* include_fields passes).
C3_ErrorListsFirstFailingList ==
    (SubclassReturned /\ ~ArgsValid) =>
        /\ last.err.raised
        /\ last.cls = 0
        /\ Len(classes) = last.before
        /\ last.err.missing = IF IncludeAbsent # {} THEN IncludeAbsent ELSE ExcludeAbsent

\* both lists name absent fields, different ones, and the call has raised
C3_Witness ==
    /\ SubclassReturned
    /\ IncludeAbsent # {} /\ ExcludeAbsent # {} /\ IncludeAbsent # ExcludeAbsent
    /\ Cardinality(IncludeAbsent) = 2
    /\ last.err.raised

\* no two classes share a __fields__ dict or a descriptor, and the declared
\* classes hold what they were declared with
NoSharing ==
    /\ \A c, d \in DOMAIN classes : c # d =>
            /\ classes[c].fields # classes[d].fields
            /\ Range(FieldMap(c)) \cap Range(FieldMap(d)) = {}
    /\ ClassView(APIBaseModel) =
            [f \in APIFields |-> [ref |-> Pos(f), obj |-> Descriptor(f)]]
    /\ ClassView(Entity) =
            [f \in EntityFields |-> [ref |-> 3 + Pos(f), obj |-> Descriptor(f)]]

\* a factory call, raising or not, changes the field map of no class there
\* was; removing or replacing an entry of one class's field map changes no
\* other class's
FrameStep ==
    /\ last'.op = "subclass" =>
            \A c \in DOMAIN classes : ClassView(c)' = ClassView(c)
    /\ last'.op \in {"pop", "replace"} =>
            \A c \in DOMAIN classes :
                (ClassView(c)' # ClassView(c)) <=> (c = last'.cls)

-----------------------------------------------------------------------------
(* Claims about APIBaseModel.copy *)

CopyReturned == last.op = "copy"

\* the instance copied has an id, a created and an updated, none of them None
SourceIsStored ==
    \A k \in APIFields :
        k \in DOMAIN insts[last.self].vals /\ insts[last.self].vals[k] # NoneV

\* C5: copying an instance x whose id, created and updated are set gives y with
\* each of these three equal to update's value when update has the key, and
\* otherwise a different id (for id) or None (for created, updated); the other
\* fields are x's, or update's where update gives them.
C5_CopyResetsIdentityFields ==
    (CopyReturned /\ SourceIsStored) =>
        /\ last.raised = ""
        /\ last.res = Len(insts)
        /\ LET x == insts[last.self]
               y == insts[last.res]
           IN  /\ y.cls = x.cls
               /\ DOMAIN y.vals = DOMAIN x.vals \cup DOMAIN last.given
               /\ \A k \in DOMAIN last.given : y.vals[k] = last.given[k]
               /\ "id" \notin DOMAIN last.given =>
                      /\ y.vals["id"].t = "uuid"
                      /\ y.vals["id"] # x.vals["id"]
               /\ \A k \in {"created", "updated"} \ DOMAIN last.given :
                      y.vals[k] = NoneV
               /\ \A f \in DOMAIN x.vals \ (APIFields \cup DOMAIN last.given) :
                      y.vals[f] = x.vals[f]

\* a stored instance was copied with an update that gives an id and a data but
\* no timestamps: the copy has that id and data, and no timestamps
C5_Witness ==
    /\ CopyReturned /\ SourceIsStored
    /\ DOMAIN last.given = {"id", "data"}
    /\ last.res # 0
    /\ insts[last.res].vals["id"] = SomeId
    /\ insts[last.res].vals["created"] = NoneV
    /\ insts[last.self].vals["created"] = Time(1)
    /\ insts[last.res].vals["data"] = Str(2)

IdsOf(i) == UuidsIn([f \in DOMAIN insts[i].vals \cap {"id"} |-> insts[i].vals[f]])

\* C8: when no caller puts an id into an update dict, every instance has an id
\* of its own, the copies of one source made with one update dict included,
\* and copy() leaves in a caller's update dict only the id, created and updated
\* entries the caller put there.
C8_CopiesGetFreshIds ==
    (\A u \in DOMAIN updates : "id" \notin updates[u].given) =>
        /\ \A i, j \in DOMAIN insts : i # j => IdsOf(i) \cap IdsOf(j) = {}
        /\ \A u \in DOMAIN updates :
               DOMAIN updates[u].map \cap APIFields \subseteq updates[u].given

\* C10: copy() on an instance of a type the factory produced returns, and the
\* copy has only fields of that type.
C10_CopyWorksOnProducedTypes ==
    (CopyReturned /\ insts[last.self].cls \notin Declared) =>
        /\ last.raised = ""
        /\ last.res # 0
        /\ DOMAIN insts[last.res].vals \subseteq FieldNamesOf(insts[last.self].cls)

-----------------------------------------------------------------------------
(* Claims about PrefectBaseModel.dict *)

DictReturned == last.op = "dict"

\* the instance at r holds a model instance in its data field
HoldsModel(r) ==
    "data" \in DOMAIN insts[r].vals /\ insts[r].vals["data"].t = "model"

\* C6: dict(json_compatible=True, shallow=True) raises whatever the other
\* options are, and raises before it calls the JSON encoder or either export.
C6_JsonAndShallowRaisesFirst ==
    (DictReturned /\ last.json_compatible /\ last.shallow) =>
        /\ last.raised = "ValueError"
        /\ last.calls = << >>
        /\ last.result = NoItems

\* the call was made with json_compatible, shallow and an include set
C6_Witness ==
    /\ DictReturned /\ last.json_compatible /\ last.shallow
    /\ last.kwargs.include.passed /\ last.kwargs.include.names = {"data"}
    /\ HoldsModel(last.self)
    /\ last.raised = "ValueError"

====
